---- MODULE Spec2Model ----
(***************************************************************************)
(* Recipe optimizer of the Vintage Story alloy calculator.                 *)
(*                                                                         *)
(*   optimizeRecipe      src/src/lib/recipeOptimizer.ts                    *)
(*   maximizeIngots      src/src/lib/maximizationStrategy.ts               *)
(*   optimizeEconomical  src/unnamed/part_006 (economicalStrategy.ts)      *)
(*   validateRecipe      src/src/lib/recipeValidator.ts                    *)
(*   metal rarity table  src/terraform/locals.tf (metalRarity.ts)          *)
(*                                                                         *)
(* Numbers.  Percentages are held in hundredths of a percentage point      *)
(* (minPercent = 2490 is 24.9%), rarity scores in tenths (copper = 10 is   *)
(* 1.0).  On that grid every quantity the code compares is a rational      *)
(* whose distinct values lie at least 1e-4 apart, far more than the        *)
(* rounding error of an IEEE double (about 1e-13 here), so the comparisons *)
(* that carry an explicit epsilon (1e-6, 1e-9) are modelled as exact       *)
(* integer comparisons with a sub-unit epsilon.  The economical strategy   *)
(* calls Math.ceil / Math.floor / Math.round on products without any       *)
(* epsilon; there the double result can differ from the exact one by one,  *)
(* and the inputs for which it does are tabulated (FloatCeilUp,            *)
(* FloatFloorDown, FloatRoundDown).                                        *)
(***************************************************************************)
EXTENDS Integers, Sequences, FiniteSets, TLC

(***************************************************************************)
(* Bounds of the checked input space.                                      *)
(***************************************************************************)
\* generated two-metal recipes have their first band starting at
\* 1.25% * i, i in 0..MaxLoIdx
MaxLoIdx == 8
\* economical targets 1..MaxTarget (plus the special targets below)
MaxTarget == 6
\* amounts lists handed to the validator's helpers have 1..MaxAmounts entries
MaxAmounts == 3

(***************************************************************************)
(* Program constants.                                                      *)
(***************************************************************************)
\* mutant of SlotCapacity: a container twice as large
SlotCapacityDouble == 2 * 128
SlotCapacity == 128
\* mutant of MaxSlots: one container too many
MaxSlotsFive == 4 + 1
MaxSlots == 4
\* mutant of SearchHigh: the search interval stops short of 25
SearchHighTooLow == 3 * 8
SearchHigh == 50
NuggetsPerIngot == 20
UnitsPerNugget == 5
UnitsPerIngot == 100
\* rarityScore <= 2.0, in tenths
CommonThreshold == 20

Metals == {"copper", "tin", "zinc", "bismuth", "gold", "silver", "lead", "nickel"}

\* METAL_RARITY_SCORES, in tenths
METAL_RARITY_SCORES ==
  [m \in Metals |->
     CASE m = "copper"  -> 10
       [] m = "lead"    -> 12
       [] m = "zinc"    -> 20
       [] m = "bismuth" -> 20
       [] m = "tin"     -> 30
       [] m = "gold"    -> 50
       [] m = "silver"  -> 50
       [] m = "nickel"  -> 80]

getRarityScore(metalId) == METAL_RARITY_SCORES[metalId]

(***************************************************************************)
(* Optional values (null / undefined).                                     *)
(***************************************************************************)
\* None: an absent array; NoNumber: an absent number
None == [some |-> FALSE, val |-> <<>>]
NoNumber == [some |-> FALSE, val |-> 0]
Some(x) == [some |-> TRUE, val |-> x]

(***************************************************************************)
(* Integer helpers.                                                        *)
(***************************************************************************)
CeilDiv(a, b) == -((-a) \div b)
FloorDiv(a, b) == a \div b
Max2(a, b) == IF a >= b THEN a ELSE b
Min2(a, b) == IF a <= b THEN a ELSE b

RECURSIVE SumSeq(_)
SumSeq(s) == IF s = <<>> THEN 0 ELSE Head(s) + SumSeq(Tail(s))

\* mutant of SlotsNeeded: floor + 1, one slot too many for a full slot
SlotsNeededFloorPlusOne(nuggets) == FloorDiv(nuggets, SlotCapacity) + 1

\* Math.ceil(nuggets / 128)
SlotsNeeded(nuggets) == CeilDiv(nuggets, SlotCapacity)

Comp(metalId, minPercent, maxPercent) ==
  [metalId |-> metalId, minPercent |-> minPercent, maxPercent |-> maxPercent]

Amount(metalId, nuggets) == [metalId |-> metalId, nuggets |-> nuggets]

(***************************************************************************)
(* maximizationStrategy.ts: the per-N backtracking search.                 *)
(***************************************************************************)
\* the sum of ceil(nuggets / 128) over the amounts
RECURSIVE SlotsOf(_)
SlotsOf(amounts) ==
  IF amounts = <<>> THEN 0
  ELSE SlotsNeeded(Head(amounts).nuggets) + SlotsOf(Tail(amounts))

\* mutant of fitsInFourSlots: < instead of <=
fitsInFourSlotsStrict(amounts) == SlotsOf(amounts) < MaxSlots

\* fitsInFourSlots: totalSlots <= 4
fitsInFourSlots(amounts) == SlotsOf(amounts) <= MaxSlots

\* Math.ceil((((minPercent - 0.01) / 100) * targetUnits - 0.000001) / 5)
\* = ceil((X - 1e-4) / 500) with X = (minPercent - 1) * N in hundredths of
\* a unit; for an integer X and 0 < eps < 1 that is (X - 1) \div 500 + 1.
BandMinNuggets(component, ingotCount) ==
  FloorDiv((component.minPercent - 1) * ingotCount - 1, 500) + 1

\* Math.floor((((maxPercent + 0.01) / 100) * targetUnits + 0.000001) / 5)
\* = floor((Y + 1e-4) / 500) with Y = (maxPercent + 1) * N.
BandMaxNuggets(component, ingotCount) ==
  FloorDiv((component.maxPercent + 1) * ingotCount, 500)

\* percent = (n * 5 / targetUnits) * 100 = 5n / N, compared against
\* minPercent - 0.01 - 1e-9 and maxPercent + 0.01 + 1e-9: in hundredths of a
\* unit, 500 n against X - 1e-7 N and Y + 1e-7 N, with 0 < 1e-7 N < 1.
PercentDoubleCheck(component, ingotCount, n) ==
  /\ 500 * n > (component.minPercent - 1) * ingotCount - 1
  /\ 500 * n < (component.maxPercent + 1) * ingotCount + 1

\* minRemaining / maxRemaining: the loop over components index+1 .. length
RECURSIVE MinRemaining(_, _, _)
MinRemaining(components, ingotCount, from) ==
  IF from > Len(components) THEN 0
  ELSE BandMinNuggets(components[from], ingotCount)
       + MinRemaining(components, ingotCount, from + 1)

\* mutant of MaxRemaining: the loop stops one component early
RECURSIVE MaxRemainingShort(_, _, _)
MaxRemainingShort(components, ingotCount, from) ==
  IF from > Len(components) - 1 THEN 0
  ELSE BandMaxNuggets(components[from], ingotCount)
       + MaxRemainingShort(components, ingotCount, from + 1)

RECURSIVE MaxRemaining(_, _, _)
MaxRemaining(components, ingotCount, from) ==
  IF from > Len(components) THEN 0
  ELSE BandMaxNuggets(components[from], ingotCount)
       + MaxRemaining(components, ingotCount, from + 1)

\* solve(index, currentNuggets, currentAmounts); index is 1-based here.
\* The for-loop over n = globalMin .. globalMax returns at the first n whose
\* recursive call succeeds: the least n of the range that passes the
\* percentage double check and the slot pruning and whose subtree succeeds.
RECURSIVE solve(_, _, _, _, _)
solve(components, ingotCount, index, currentNuggets, currentAmounts) ==
  LET targetNuggets == ingotCount * NuggetsPerIngot IN
  IF index = Len(components) + 1
  THEN IF currentNuggets = targetNuggets /\ fitsInFourSlots(currentAmounts)
       THEN Some(currentAmounts) ELSE None
  ELSE
    LET component == components[index]
        minNuggets == BandMinNuggets(component, ingotCount)
        maxNuggets == BandMaxNuggets(component, ingotCount)
    IN
    IF index = Len(components)
    THEN LET remainingNuggets == targetNuggets - currentNuggets
             newAmounts == Append(currentAmounts,
                                  Amount(component.metalId, remainingNuggets))
         IN IF /\ remainingNuggets >= minNuggets
               /\ remainingNuggets <= maxNuggets
               /\ PercentDoubleCheck(component, ingotCount, remainingNuggets)
               /\ fitsInFourSlots(newAmounts)
            THEN Some(newAmounts) ELSE None
    ELSE LET minRemaining == MinRemaining(components, ingotCount, index + 1)
             maxRemaining == MaxRemaining(components, ingotCount, index + 1)
             globalMin == Max2(minNuggets,
                               targetNuggets - currentNuggets - maxRemaining)
             globalMax == Min2(maxNuggets,
                               targetNuggets - currentNuggets - minRemaining)
             newAmounts(n) == Append(currentAmounts,
                                     Amount(component.metalId, n))
             sub(n) == solve(components, ingotCount, index + 1,
                             currentNuggets + n, newAmounts(n))
             hits == {n \in globalMin..globalMax :
                        /\ PercentDoubleCheck(component, ingotCount, n)
                        /\ SlotsOf(newAmounts(n)) <= MaxSlots
                        /\ sub(n).some}
         IN IF hits = {} THEN None
            ELSE sub(CHOOSE n \in hits : \A m \in hits : n <= m)

findValidRecipe(components, ingotCount) ==
  solve(components, ingotCount, 1, 0, <<>>)

(***************************************************************************)
(* Crucible construction (identical in both strategies).                   *)
(***************************************************************************)
Slot(id, metalId, nuggets) == [id |-> id, metalId |-> metalId, nuggets |-> nuggets]

\* the empty slot's metalId: null
NoMetal == "null"

\* distributeToSlots: full slots of 128, then the rest; ids from 0
RECURSIVE distributeToSlots(_, _, _)
distributeToSlots(metalId, remaining, slotId) ==
  IF remaining > 0
  THEN LET nuggets == Min2(SlotCapacity, remaining)
       IN <<Slot(slotId, metalId, nuggets)>>
          \o distributeToSlots(metalId, remaining - nuggets, slotId + 1)
  ELSE <<>>

RECURSIVE AllSlots(_)
AllSlots(amounts) ==
  IF amounts = <<>> THEN <<>>
  ELSE distributeToSlots(Head(amounts).metalId, Head(amounts).nuggets, 0)
       \o AllSlots(Tail(amounts))

\* mutant of amountsToCrucible: the slots keep the ids distributeToSlots gave
\* them, which start from 0 for every metal
amountsToCrucibleIdsKept(amounts) ==
  LET allSlots == AllSlots(amounts)
      len == Max2(Len(allSlots), MaxSlots)
  IN [i \in 1..len |->
        IF i <= Len(allSlots)
        THEN allSlots[i]
        ELSE Slot(i - 1, NoMetal, 0)]

\* amountsToCrucible: concatenate, renumber 0.., pad with empty slots to 4
amountsToCrucible(amounts) ==
  LET allSlots == AllSlots(amounts)
      len == Max2(Len(allSlots), MaxSlots)
  IN [i \in 1..len |->
        IF i <= Len(allSlots)
        THEN Slot(i - 1, allSlots[i].metalId, allSlots[i].nuggets)
        ELSE Slot(i - 1, NoMetal, 0)]

(***************************************************************************)
(* recipeValidator.ts                                                      *)
(***************************************************************************)
\* validateSlotCount: at most 4 slots with a metal and nuggets > 0
validateSlotCount(slots) ==
  Cardinality({i \in 1..Len(slots) :
                 slots[i].metalId # NoMetal /\ slots[i].nuggets > 0}) <= MaxSlots

\* validateSlotCapacity: every slot holds <= 128
validateSlotCapacity(slots) ==
  \A i \in 1..Len(slots) : slots[i].nuggets <= SlotCapacity

\* amounts.find(a => a.metalId === metalId): index of the first match, 0 if none
RECURSIVE FindFrom(_, _, _)
FindFrom(amounts, metalId, i) ==
  IF i > Len(amounts) THEN 0
  ELSE IF amounts[i].metalId = metalId THEN i
  ELSE FindFrom(amounts, metalId, i + 1)

Find(amounts, metalId) == FindFrom(amounts, metalId, 1)

\* amounts.reduce((sum, a) => sum + a.nuggets, 0)
RECURSIVE TotalNuggets(_)
TotalNuggets(amounts) ==
  IF amounts = <<>> THEN 0
  ELSE Head(amounts).nuggets + TotalNuggets(Tail(amounts))

TotalUnits(amounts) == UnitsPerNugget * TotalNuggets(amounts)

\* validateRecipe's conversion of the crucible to amounts: a Map keyed by
\* metal, summed over the slots with a metal and nuggets > 0, read back in
\* insertion order.
RECURSIVE MetalTotals(_, _)
MetalTotals(slots, acc) ==
  IF slots = <<>> THEN acc
  ELSE LET slot == Head(slots)
           k == Find(acc, slot.metalId)
       IN IF slot.metalId # NoMetal /\ slot.nuggets > 0
          THEN MetalTotals(Tail(slots),
                 IF k = 0 THEN Append(acc, Amount(slot.metalId, slot.nuggets))
                 ELSE [acc EXCEPT ![k].nuggets = @ + slot.nuggets])
          ELSE MetalTotals(Tail(slots), acc)

\* mutant of PercentInBand: a tolerance of 0.02 on each side
PercentInBandWide(component, nuggets, totalNuggets) ==
  /\ 10000 * nuggets >= (component.minPercent - 2) * totalNuggets
  /\ 10000 * nuggets <= (component.maxPercent + 2) * totalNuggets

\* mutant of PercentInBand: the comparison with maxValid is missing
PercentAboveMin(component, nuggets, totalNuggets) ==
  10000 * nuggets >= (component.minPercent - 1) * totalNuggets

\* percentage = (units / totalUnits) * 100 against minPercent - 0.01 and
\* maxPercent + 0.01: 100 n / T against (p -+ 1) / 100, T the total nuggets.
PercentInBand(component, nuggets, totalNuggets) ==
  /\ 10000 * nuggets >= (component.minPercent - 1) * totalNuggets
  /\ 10000 * nuggets <= (component.maxPercent + 1) * totalNuggets

validatePercentages(amounts, components) ==
  /\ TotalUnits(amounts) # 0
  /\ \A i \in 1..Len(components) :
       LET k == Find(amounts, components[i].metalId)
       IN /\ k # 0
          /\ amounts[k].nuggets # 0
          /\ PercentInBand(components[i], amounts[k].nuggets,
                           TotalNuggets(amounts))

validateTotalUnits(amounts, ingotCount) ==
  TotalUnits(amounts) = ingotCount * UnitsPerIngot

validateComponentPresence(amounts, components) ==
  \A i \in 1..Len(components) :
    LET k == Find(amounts, components[i].metalId)
    IN k # 0 /\ amounts[k].nuggets > 0

\* mutant of validateRecipe: the checks form an else-if chain, only the
\* first failure is reported
validateRecipeFirstErrorOnly(slots, components, ingotCount) ==
  LET amounts == MetalTotals(slots, <<>>)
      errors ==
        IF ~validateSlotCount(slots) THEN <<"slot count">>
        ELSE IF ~validateSlotCapacity(slots) THEN <<"slot capacity">>
        ELSE IF ~validateComponentPresence(amounts, components)
        THEN <<"component presence">>
        ELSE IF ~validateTotalUnits(amounts, ingotCount) THEN <<"total units">>
        ELSE IF ~validatePercentages(amounts, components) THEN <<"percentages">>
        ELSE <<>>
  IN [valid |-> Len(errors) = 0, errors |-> errors]

\* mutant of validateRecipe: no check is run
validateRecipeUnchecked(slots, components, ingotCount) ==
  [valid |-> TRUE, errors |-> <<>>]

\* validateRecipe: the list of failed checks, in the order they are pushed
validateRecipe(slots, components, ingotCount) ==
  LET amounts == MetalTotals(slots, <<>>)
      e1 == IF validateSlotCount(slots) THEN <<>> ELSE <<"slot count">>
      e2 == IF validateSlotCapacity(slots) THEN <<>> ELSE <<"slot capacity">>
      e3 == IF validateComponentPresence(amounts, components)
            THEN <<>> ELSE <<"component presence">>
      e4 == IF validateTotalUnits(amounts, ingotCount)
            THEN <<>> ELSE <<"total units">>
      e5 == IF validatePercentages(amounts, components)
            THEN <<>> ELSE <<"percentages">>
      errors == e1 \o e2 \o e3 \o e4 \o e5
  IN [valid |-> Len(errors) = 0, errors |-> errors]

(***************************************************************************)
(* metalRarity.ts                                                          *)
(***************************************************************************)
\* mutant of calculateRarityCost: every metal is weighed as the commonest one
RECURSIVE calculateRarityCostUnweighted(_)
calculateRarityCostUnweighted(amounts) ==
  IF amounts = <<>> THEN 0
  ELSE Head(amounts).nuggets * getRarityScore("copper")
       + calculateRarityCostUnweighted(Tail(amounts))

\* calculateRarityCost, in tenths
RECURSIVE calculateRarityCost(_)
calculateRarityCost(amounts) ==
  IF amounts = <<>> THEN 0
  ELSE Head(amounts).nuggets * getRarityScore(Head(amounts).metalId)
       + calculateRarityCost(Tail(amounts))

\* calculatePercentages: per metal (nuggets * 5 / totalUnits) * 100, kept as
\* the exact fraction num / den
calculatePercentages(amounts) ==
  [i \in 1..Len(amounts) |->
     [metalId |-> amounts[i].metalId,
      num |-> amounts[i].nuggets * UnitsPerNugget * 100,
      den |-> TotalUnits(amounts)]]

(***************************************************************************)
(* economicalStrategy.ts: createEconomicalRecipe                           *)
(***************************************************************************)
\* IEEE-double outcomes of the epsilon-free roundings, for the percentages
\* and targets of the checked input space: <<p, N>> with p in hundredths.
\* Math.ceil((p / 100) * (N * 100) / 5) is one above the exact ceiling:
FloatCeilUp ==
  {<<350, 100>>, <<850, 100>>, <<1375, 4>>, <<1375, 8>>, <<5500, 1>>,
   <<5500, 2>>, <<5500, 4>>, <<5500, 7>>, <<5500, 8>>, <<5500, 9>>,
   <<5500, 26>>, <<5500, 27>>, <<6800, 25>>, <<6800, 100>>}
\* Math.floor((p / 100) * (N * 100) / 5) is one below the exact floor:
FloatFloorDown ==
  {<<1750, 26>>, <<3500, 7>>, <<3500, 26>>, <<3500, 27>>, <<7000, 7>>,
   <<7000, 26>>, <<7000, 27>>}
\* Math.round((p / 100) * (N * 100)) is one below the exact rounding:
FloatRoundDown ==
  {<<725, 2>>, <<875, 26>>, <<1750, 7>>, <<1750, 27>>}

\* Math.ceil((minPercent / 100) * targetUnits / 5)
EcoMinNuggets(component, targetIngots) ==
  CeilDiv(component.minPercent * targetIngots, 500)
  + (IF <<component.minPercent, targetIngots>> \in FloatCeilUp THEN 1 ELSE 0)

\* Math.floor((maxPercent / 100) * targetUnits / 5)
EcoMaxNuggets(component, targetIngots) ==
  FloorDiv(component.maxPercent * targetIngots, 500)
  - (IF <<component.maxPercent, targetIngots>> \in FloatFloorDown THEN 1 ELSE 0)

\* Math.round((targetPercent / 100) * targetUnits), round half up
EcoTargetUnits(targetPercent, targetIngots) ==
  FloorDiv(targetPercent * targetIngots + 50, 100)
  - (IF <<targetPercent, targetIngots>> \in FloatRoundDown THEN 1 ELSE 0)

\* Math.round(units / 5) of a non-negative integer
RoundToNuggets(units) == FloorDiv(units + 2, 5)

\* mutant of getMinUnitsForRemaining: nothing is kept back for the components
\* still to come
getMinUnitsForRemainingNothing(sortedComponents, targetIngots, startIndex) == 0

\* getMinUnitsForRemaining(startIndex), in hundredths of a unit
RECURSIVE getMinUnitsForRemaining(_, _, _)
getMinUnitsForRemaining(sortedComponents, targetIngots, startIndex) ==
  IF startIndex > Len(sortedComponents) THEN 0
  ELSE sortedComponents[startIndex].minPercent * targetIngots
       + getMinUnitsForRemaining(sortedComponents, targetIngots, startIndex + 1)

\* one pass of the allocation loop, for component i (1-based)
EcoNuggets(sortedComponents, targetIngots, i, allocatedUnits) ==
  LET component == sortedComponents[i]
      targetUnits == targetIngots * UnitsPerIngot
      rarityScore == getRarityScore(component.metalId)
      remainingUnits == targetUnits - allocatedUnits
      \* maxAvailableUnits, in hundredths of a unit
      maxAvailableUnits ==
        100 * remainingUnits
        - getMinUnitsForRemaining(sortedComponents, targetIngots, i + 1)
      targetPercent == IF rarityScore <= CommonThreshold
                       THEN component.maxPercent ELSE component.minPercent
      targetUnitsForComponent == EcoTargetUnits(targetPercent, targetIngots)
      nuggets == RoundToNuggets(targetUnitsForComponent)
      minNuggets == EcoMinNuggets(component, targetIngots)
      maxNuggets == EcoMaxNuggets(component, targetIngots)
      maxAvailableNuggets == FloorDiv(maxAvailableUnits, 500)
  IN Max2(minNuggets, Min2(maxNuggets, Min2(nuggets, maxAvailableNuggets)))

\* the loop for (i = 0; i < length - 1; i++), returning the amounts pushed
RECURSIVE EcoLoop(_, _, _, _, _)
EcoLoop(sortedComponents, targetIngots, i, allocatedUnits, amounts) ==
  IF i > Len(sortedComponents) - 1 THEN amounts
  ELSE LET nuggets == EcoNuggets(sortedComponents, targetIngots, i, allocatedUnits)
       IN EcoLoop(sortedComponents, targetIngots, i + 1,
                  allocatedUnits + nuggets * UnitsPerNugget,
                  Append(amounts, Amount(sortedComponents[i].metalId, nuggets)))

\* the stable sort by ascending rarity score (Array.prototype.sort)
RECURSIVE InsertByRarity(_, _)
InsertByRarity(sorted, component) ==
  IF sorted = <<>> THEN <<component>>
  ELSE IF getRarityScore(sorted[Len(sorted)].metalId)
            <= getRarityScore(component.metalId)
       THEN Append(sorted, component)
       ELSE Append(InsertByRarity(SubSeq(sorted, 1, Len(sorted) - 1), component),
                   sorted[Len(sorted)])

RECURSIVE SortByRarityFrom(_, _)
SortByRarityFrom(components, sorted) ==
  IF components = <<>> THEN sorted
  ELSE SortByRarityFrom(Tail(components),
                        InsertByRarity(sorted, Head(components)))

SortByRarity(components) == SortByRarityFrom(components, <<>>)

\* mutant of createEconomicalRecipe: the last component takes the remainder
\* without the check of its percentage
createEconomicalRecipeUnchecked(components, sortedComponents, targetIngots) ==
  LET targetUnits == targetIngots * UnitsPerIngot IN
  IF Len(components) = 1
  THEN Some(<<Amount(components[1].metalId, targetUnits \div UnitsPerNugget)>>)
  ELSE
    LET amounts == EcoLoop(sortedComponents, targetIngots, 1, 0, <<>>)
        lastComponent == sortedComponents[Len(sortedComponents)]
        remainingUnits == targetUnits - TotalUnits(amounts)
    IN Some(Append(amounts,
                   Amount(lastComponent.metalId,
                          remainingUnits \div UnitsPerNugget)))

\* createEconomicalRecipe, given the sorted copy of the components
createEconomicalRecipe(components, sortedComponents, targetIngots) ==
  LET targetUnits == targetIngots * UnitsPerIngot IN
  IF Len(components) = 1
  THEN Some(<<Amount(components[1].metalId, targetUnits \div UnitsPerNugget)>>)
  ELSE
    LET amounts == EcoLoop(sortedComponents, targetIngots, 1, 0, <<>>)
        allocatedUnits == TotalUnits(amounts)
        lastComponent == sortedComponents[Len(sortedComponents)]
        remainingUnits == targetUnits - allocatedUnits
        \* lastPercent = (remainingUnits / targetUnits) * 100 against
        \* minPercent - 0.01 and maxPercent + 0.01
        lastInBand ==
          /\ 100 * remainingUnits >= (lastComponent.minPercent - 1) * targetIngots
          /\ 100 * remainingUnits <= (lastComponent.maxPercent + 1) * targetIngots
    IN IF ~lastInBand THEN None
       ELSE Some(Append(amounts,
                        Amount(lastComponent.metalId,
                               remainingUnits \div UnitsPerNugget)))

(***************************************************************************)
(* The checked input space.                                                *)
(***************************************************************************)
Recipe(id, components) == [id |-> id, name |-> id, components |-> components]

\* data/alloys.ts
ALLOY_RECIPES ==
  << Recipe("tin-bronze",
            <<Comp("copper", 8800, 9200), Comp("tin", 800, 1200)>>),
     Recipe("bismuth-bronze",
            <<Comp("copper", 5000, 7000), Comp("zinc", 2000, 3000),
              Comp("bismuth", 1000, 2000)>>),
     Recipe("black-bronze",
            <<Comp("copper", 6800, 8400), Comp("silver", 800, 1600),
              Comp("gold", 800, 1600)>>),
     Recipe("brass",
            <<Comp("copper", 6000, 7000), Comp("zinc", 3000, 4000)>>),
     Recipe("molybdochalkos",
            <<Comp("copper", 800, 1200), Comp("lead", 8800, 9200)>>),
     Recipe("lead-solder",
            <<Comp("lead", 4500, 5500), Comp("tin", 4500, 5500)>>),
     Recipe("silver-solder",
            <<Comp("silver", 4000, 5000), Comp("tin", 5000, 6000)>>),
     Recipe("cupronickel",
            <<Comp("copper", 6500, 7500), Comp("nickel", 2500, 3500)>>),
     Recipe("electrum",
            <<Comp("gold", 4000, 6000), Comp("silver", 4000, 6000)>>) >>

BuiltInRecipes == {ALLOY_RECIPES[i] : i \in 1..Len(ALLOY_RECIPES)}

\* hand-picked shapes: one component (with and without 100% in its band),
\* four pinned components, five
\* components, an exact 1% / 99% split, bands that reach down to 0%, and an
\* empty component list
EdgeRecipes ==
  { Recipe("single", <<Comp("copper", 10000, 10000)>>),
    Recipe("half", <<Comp("copper", 5000, 6000)>>),
    Recipe("quarters",
           <<Comp("copper", 2490, 2510), Comp("tin", 2490, 2510),
             Comp("zinc", 2490, 2510), Comp("lead", 2490, 2510)>>),
    Recipe("fifths",
           <<Comp("copper", 2000, 2000), Comp("tin", 2000, 2000),
             Comp("zinc", 2000, 2000), Comp("lead", 2000, 2000),
             Comp("gold", 2000, 2000)>>),
    Recipe("one-in-hundred",
           <<Comp("copper", 100, 100), Comp("tin", 9900, 9900)>>),
    Recipe("open", <<Comp("copper", 0, 10000), Comp("tin", 0, 10000)>>),
    Recipe("empty", <<>>) }

\* two-metal recipes on a 1.25% grid: first band [lo, lo + w], second band
\* its complement
MetalPairs == {<<"copper", "tin">>, <<"tin", "silver">>, <<"gold", "copper">>}
BandWidths == {0, 100, 500}
GeneratedRecipes ==
  { Recipe("generated",
           <<Comp(mp[1], 125 * i, 125 * i + w),
             Comp(mp[2], 10000 - 125 * i - w, 10000 - 125 * i)>>) :
      mp \in MetalPairs, i \in 0..MaxLoIdx, w \in BandWidths }

Recipes == BuiltInRecipes \cup EdgeRecipes \cup GeneratedRecipes

\* targetIngots: absent, or one of these numbers
Targets == (1..MaxTarget) \cup {-1, 0, 25, 26, 100}
TargetArgs == {NoNumber} \cup {Some(t) : t \in Targets}

\* mutant of Modes: any non-empty mode string is let through
ModesUnchecked == {"maximize", "economical", "bogus"}
Modes == {"maximize", "economical"}
\* what the caller may put in the mode field: a mode, nothing, or junk
ModeArgs == Modes \cup {"undefined", "bogus"}

\* A recipe object as it sits in memory: components is a reference into the
\* heap of arrays (0 = the property is undefined).
RecipeObj(id, name, ref) == [id |-> id, name |-> name, components |-> ref]
NoRecipe == RecipeObj("", "", 0)

\* optimizeRecipe's argument.  isNull: the argument itself is null;
\* hasRecipe: input.recipe is set.
Input(isNull, hasRecipe, recipe, mode, targetIngots) ==
  [isNull |-> isNull, hasRecipe |-> hasRecipe, recipe |-> recipe,
   mode |-> mode, targetIngots |-> targetIngots]

Entries == {"optimizeRecipe", "maximizeIngots", "optimizeEconomical"}

(***************************************************************************)
(* State.                                                                  *)
(***************************************************************************)
VARIABLES
  entry,        \* the exported function the caller invoked
  input,        \* the caller's argument object (never written by the code)
  heap,         \* the arrays of components, by reference; heap[1] is the
                \* array of the caller's recipe
  pc,           \* position in the call
  recipe,       \* the recipe object the running strategy was handed
  targetIngots, \* the target the running strategy was handed
  low, high, maxValid, bestAmounts,   \* maximizeIngots' binary search
  probes,       \* the values of mid probed so far, in order
  amounts,      \* optimizeEconomical's amounts
  result,       \* the OptimizerResult returned (meaningful once pc = "done")
  thrown,       \* an exception left the entry function
  calls,        \* how many calls the caller has made with this argument
  first,        \* what the first of them returned (or that it threw)
  validatorArgs, \* validateRecipe's arguments, when it is called on its own
  validationResult \* the RecipeValidationResult of that call

vars == <<entry, input, heap, pc, recipe, targetIngots, low, high, maxValid,
          bestAmounts, probes, amounts, result, thrown, calls, first,
          validatorArgs, validationResult>>

searchVars == <<low, high, maxValid, bestAmounts, probes>>

\* what a single call of an entry point never touches
callerVars == <<calls, first, validatorArgs, validationResult>>

(***************************************************************************)
(* OptimizerResult values.                                                 *)
(***************************************************************************)
Err(text, n, checks) == [text |-> text, n |-> n, checks |-> checks]
NoError == Err("", 0, <<>>)

\* mutant of FailureResult: the mode is the literal "maximize" in every failure
FailureResultModeMaximize(error, mode, recipeObj) ==
  [success |-> FALSE, crucible |-> None, ingotCount |-> 0,
   rarityCost |-> NoNumber, error |-> error,
   metadata |-> [mode |-> "maximize", recipe |-> recipeObj, totalNuggets |-> 0,
                 percentages |-> <<>>]]

\* mutant of FailureResult: the failure carries no reason
FailureResultNoReason(error, mode, recipeObj) ==
  [success |-> FALSE, crucible |-> None, ingotCount |-> 0,
   rarityCost |-> NoNumber, error |-> NoError,
   metadata |-> [mode |-> mode, recipe |-> recipeObj, totalNuggets |-> 0,
                 percentages |-> <<>>]]

FailureResult(error, mode, recipeObj) ==
  [success |-> FALSE, crucible |-> None, ingotCount |-> 0,
   rarityCost |-> NoNumber, error |-> error,
   metadata |-> [mode |-> mode, recipe |-> recipeObj, totalNuggets |-> 0,
                 percentages |-> <<>>]]

\* mutant of SuccessResult: the count after the last increment is reported
SuccessResultNextCount(crucible, ingotCount, rarityCost, mode, recipeObj, amts) ==
  [success |-> TRUE, crucible |-> Some(crucible), ingotCount |-> ingotCount + 1,
   rarityCost |-> rarityCost, error |-> NoError,
   metadata |-> [mode |-> mode, recipe |-> recipeObj,
                 totalNuggets |-> TotalNuggets(amts),
                 percentages |-> calculatePercentages(amts)]]

SuccessResult(crucible, ingotCount, rarityCost, mode, recipeObj, amts) ==
  [success |-> TRUE, crucible |-> Some(crucible), ingotCount |-> ingotCount,
   rarityCost |-> rarityCost, error |-> NoError,
   metadata |-> [mode |-> mode, recipe |-> recipeObj,
                 totalNuggets |-> TotalNuggets(amts),
                 percentages |-> calculatePercentages(amts)]]

\* the value of result before the call has returned
NoResult == FailureResult(NoError, "maximize", NoRecipe)

\* mutant of ArrayCopy: the same array is used, no copy is made
ArrayCopyAlias(h, ref) == [heap |-> h, ref |-> ref]

\* [...array] and array.map(...): a fresh array with the same elements
ArrayCopy(h, ref) == [heap |-> Append(h, h[ref]), ref |-> Len(h) + 1]

(***************************************************************************)
(* Initial states: one call, with its argument drawn from the input space. *)
(***************************************************************************)
\* the recipe objects a caller may pass: one per recipe of the input space,
\* and one whose components property is missing
CallerRecipes ==
  {[obj |-> RecipeObj(r.id, r.name, 1), array |-> r.components] : r \in Recipes}
  \cup {[obj |-> RecipeObj("no-components", "no-components", 0), array |-> <<>>]}

OptimizeRecipeCalls ==
  {[input |-> Input(TRUE, FALSE, NoRecipe, "undefined", NoNumber), array |-> <<>>]}
  \cup {[input |-> Input(FALSE, FALSE, NoRecipe, m, NoNumber), array |-> <<>>] :
          m \in ModeArgs}
  \cup {[input |-> Input(FALSE, TRUE, c.obj, "maximize", NoNumber), array |-> c.array] :
          c \in CallerRecipes}
  \cup {[input |-> Input(FALSE, TRUE, c.obj, "economical", t), array |-> c.array] :
          c \in CallerRecipes, t \in TargetArgs}
  \cup {[input |-> Input(FALSE, TRUE, c.obj, m, Some(1)), array |-> c.array] :
          c \in CallerRecipes, m \in {"undefined", "bogus"}}

MaximizeIngotsCalls ==
  {[input |-> Input(FALSE, TRUE, c.obj, "maximize", NoNumber), array |-> c.array] :
     c \in CallerRecipes}

OptimizeEconomicalCalls ==
  {[input |-> Input(FALSE, TRUE, c.obj, "economical", t), array |-> c.array] :
     c \in CallerRecipes, t \in TargetArgs}

\* what the caller keeps of a finished call
Outcome(r, t) == [result |-> r, thrown |-> t]
NoOutcome == Outcome(NoResult, FALSE)

\* validateRecipe(crucible, recipe, ingotCount) called on its own
ValidatorArgs(slots, components, ingotCount) ==
  [slots |-> slots, components |-> components, ingotCount |-> ingotCount]
NoValidatorArgs == ValidatorArgs(<<>>, <<>>, 0)
NoValidation == [valid |-> FALSE, errors |-> <<>>]

Init ==
  /\ entry \in Entries
  /\ \E c \in (CASE entry = "optimizeRecipe" -> OptimizeRecipeCalls
                 [] entry = "maximizeIngots" -> MaximizeIngotsCalls
                 [] entry = "optimizeEconomical" -> OptimizeEconomicalCalls) :
       /\ input = c.input
       /\ heap = <<c.array>>
  /\ pc = entry
  /\ recipe = IF entry = "optimizeRecipe" THEN NoRecipe ELSE input.recipe
  /\ targetIngots = IF entry = "optimizeEconomical" THEN input.targetIngots
                    ELSE NoNumber
  /\ low = 0 /\ high = 0 /\ maxValid = 0
  /\ bestAmounts = None
  /\ probes = <<>>
  /\ amounts = None
  /\ result = NoResult
  /\ thrown = FALSE
  /\ calls = 1
  /\ first = NoOutcome
  /\ validatorArgs = NoValidatorArgs
  /\ validationResult = NoValidation

Return(r) ==
  /\ result' = r
  /\ pc' = "done"

(***************************************************************************)
(* recipeOptimizer.ts: optimizeRecipe                                      *)
(***************************************************************************)
\* lines 22-51: the input and mode checks
ValidateInput ==
  /\ pc = "optimizeRecipe"
  /\ IF input.isNull \/ ~input.hasRecipe
     THEN \* input?.mode || "maximize",
          \* input?.recipe || { id: "", name: "", components: [] }
          /\ heap' = Append(heap, <<>>)
          /\ Return(FailureResult(
               Err("Invalid input: recipe is required", 0, <<>>),
               IF input.isNull \/ input.mode = "undefined"
               THEN "maximize" ELSE input.mode,
               RecipeObj("", "", Len(heap) + 1)))
     ELSE IF input.mode \notin Modes
     THEN /\ heap' = heap
          /\ Return(FailureResult(
               Err("Invalid input: mode must be 'maximize' or 'economical'",
                   0, <<>>),
               "maximize", input.recipe))
     ELSE /\ heap' = heap
          /\ pc' = "copy"
          /\ result' = result
  /\ UNCHANGED <<callerVars, entry, input, recipe, targetIngots, searchVars, amounts, thrown>>

\* lines 53-57: recipeCopy.  input.recipe.components.map(...) runs before
\* the try block: with components undefined the TypeError leaves the function.
CopyRecipe ==
  /\ pc = "copy"
  /\ IF input.recipe.components = 0
     THEN /\ thrown' = TRUE
          /\ pc' = "done"
          /\ UNCHANGED <<heap, recipe>>
     ELSE LET copy == ArrayCopy(heap, input.recipe.components)
          IN /\ heap' = copy.heap
             /\ recipe' = RecipeObj(input.recipe.id, input.recipe.name, copy.ref)
             /\ pc' = "dispatch"
             /\ thrown' = thrown
  /\ UNCHANGED <<callerVars, entry, input, targetIngots, searchVars, amounts, result>>

\* lines 59-81: the target check (!input.targetIngots is true for an absent
\* target and for 0) and the dispatch
Dispatch ==
  /\ pc = "dispatch"
  /\ IF /\ input.mode = "economical"
        /\ (~input.targetIngots.some \/ input.targetIngots.val = 0)
     THEN /\ Return(FailureResult(
               Err("Target ingot amount is required for economical mode",
                   0, <<>>),
               "economical", recipe))
          /\ targetIngots' = targetIngots
     ELSE IF input.mode = "maximize"
     THEN /\ pc' = "maximizeIngots"
          /\ UNCHANGED <<result, targetIngots>>
     ELSE /\ pc' = "optimizeEconomical"
          /\ targetIngots' = input.targetIngots
          /\ result' = result
  /\ UNCHANGED <<callerVars, entry, input, heap, recipe, searchVars, amounts, thrown>>

(***************************************************************************)
(* maximizationStrategy.ts: maximizeIngots                                 *)
(***************************************************************************)
\* !recipe.components || recipe.components.length === 0
HasNoComponents(h, recipeObj) ==
  recipeObj.components = 0 \/ Len(h[recipeObj.components]) = 0

\* mutant of MaximizeStart: the lower end of the interval is set once and
\* then kept from one call to the next
MaximizeStartStaleLow ==
  /\ pc = "maximizeIngots"
  /\ IF HasNoComponents(heap, recipe)
     THEN /\ Return(FailureResult(Err("Recipe has no components", 0, <<>>),
                                  "maximize", recipe))
          /\ UNCHANGED searchVars
     ELSE /\ low' = IF low = 0 THEN 1 ELSE low
          /\ high' = SearchHigh
          /\ maxValid' = 0
          /\ bestAmounts' = None
          /\ probes' = probes
          /\ pc' = "search"
          /\ result' = result
  /\ UNCHANGED <<callerVars, entry, input, heap, recipe, targetIngots, amounts, thrown>>

\* lines 234-254: the component check and the search's initial interval
MaximizeStart ==
  /\ pc = "maximizeIngots"
  /\ IF HasNoComponents(heap, recipe)
     THEN /\ Return(FailureResult(Err("Recipe has no components", 0, <<>>),
                                  "maximize", recipe))
          /\ UNCHANGED searchVars
     ELSE /\ low' = 1
          /\ high' = SearchHigh
          /\ maxValid' = 0
          /\ bestAmounts' = None
          /\ probes' = probes
          /\ pc' = "search"
          /\ result' = result
  /\ UNCHANGED <<callerVars, entry, input, heap, recipe, targetIngots, amounts, thrown>>

\* mutant of MaximizeProbe: a rejected count stays in the interval
MaximizeProbeKeepsMid ==
  /\ pc = "search"
  /\ low <= high
  /\ LET mid == (low + high) \div 2
         found == findValidRecipe(heap[recipe.components], mid)
     IN /\ probes' = Append(probes, mid)
        /\ IF found.some /\ fitsInFourSlots(found.val)
           THEN /\ maxValid' = mid
                /\ bestAmounts' = found
                /\ low' = mid + 1
                /\ high' = high
           ELSE /\ high' = mid
                /\ UNCHANGED <<low, maxValid, bestAmounts>>
  /\ UNCHANGED <<callerVars, entry, input, heap, pc, recipe, targetIngots, amounts, result,
                 thrown>>

\* lines 256-268: one iteration of while (low <= high)
MaximizeProbe ==
  /\ pc = "search"
  /\ low <= high
  /\ LET mid == (low + high) \div 2
         found == findValidRecipe(heap[recipe.components], mid)
     IN /\ probes' = Append(probes, mid)
        /\ IF found.some /\ fitsInFourSlots(found.val)
           THEN /\ maxValid' = mid
                /\ bestAmounts' = found
                /\ low' = mid + 1
                /\ high' = high
           ELSE /\ high' = mid - 1
                /\ UNCHANGED <<low, maxValid, bestAmounts>>
  /\ UNCHANGED <<callerVars, entry, input, heap, pc, recipe, targetIngots, amounts, result,
                 thrown>>

\* lines 270-320: after the loop
MaximizeFinish ==
  /\ pc = "search"
  /\ low > high
  /\ IF maxValid = 0 \/ ~bestAmounts.some
     THEN Return(FailureResult(
            Err("No valid recipe configuration found within crucible constraints",
                0, <<>>),
            "maximize", recipe))
     ELSE LET crucible == amountsToCrucible(bestAmounts.val)
              validation == validateRecipe(crucible, heap[recipe.components],
                                           maxValid)
          IN IF ~validation.valid
             THEN Return(FailureResult(
                    Err("Validation failed", 0, validation.errors),
                    "maximize", recipe))
             ELSE Return(SuccessResult(crucible, maxValid, NoNumber, "maximize",
                                       recipe, bestAmounts.val))
  /\ UNCHANGED <<callerVars, entry, input, heap, recipe, targetIngots, searchVars, amounts,
                 thrown>>

(***************************************************************************)
(* economicalStrategy.ts: optimizeEconomical                               *)
(***************************************************************************)
\* lines 588-634: the three argument checks
EconomicalStart ==
  /\ pc = "optimizeEconomical"
  /\ IF HasNoComponents(heap, recipe)
     THEN Return(FailureResult(Err("Recipe has no components", 0, <<>>),
                               "economical", recipe))
     ELSE IF ~targetIngots.some
     THEN Return(FailureResult(
            Err("Target ingot amount is required for economical mode", 0, <<>>),
            "economical", recipe))
     ELSE IF targetIngots.val <= 0
     THEN Return(FailureResult(
            Err("Target ingot amount must be greater than zero", 0, <<>>),
            "economical", recipe))
     ELSE /\ pc' = "create"
          /\ result' = result
  /\ UNCHANGED <<callerVars, entry, input, heap, recipe, targetIngots, searchVars, amounts,
                 thrown>>

\* line 637: createEconomicalRecipe.  With more than one component it sorts
\* a copy of the components array, in place in the copy.
EconomicalCreate ==
  /\ pc = "create"
  /\ LET components == heap[recipe.components] IN
     IF Len(components) = 1
     THEN /\ amounts' = createEconomicalRecipe(components, components,
                                               targetIngots.val)
          /\ heap' = heap
     ELSE LET copy == ArrayCopy(heap, recipe.components)
              sortedHeap == [copy.heap EXCEPT ![copy.ref] = SortByRarity(@)]
          IN /\ heap' = sortedHeap
             /\ amounts' = createEconomicalRecipe(sortedHeap[recipe.components],
                                                  sortedHeap[copy.ref],
                                                  targetIngots.val)
  /\ pc' = "finish"
  /\ UNCHANGED <<callerVars, entry, input, recipe, targetIngots, searchVars, result, thrown>>

\* lines 639-707: the null, slot and validation checks, and the result
EconomicalFinish ==
  /\ pc = "finish"
  /\ IF ~amounts.some
     THEN Return(FailureResult(
            Err("Cannot create valid recipe for N ingots within percentage constraints",
                targetIngots.val, <<>>),
            "economical", recipe))
     ELSE IF ~fitsInFourSlots(amounts.val)
     THEN Return(FailureResult(
            Err("Recipe for N ingots requires more than 4 crucible slots",
                targetIngots.val, <<>>),
            "economical", recipe))
     ELSE LET crucible == amountsToCrucible(amounts.val)
              validation == validateRecipe(crucible, heap[recipe.components],
                                           targetIngots.val)
          IN IF ~validation.valid
             THEN Return(FailureResult(
                    Err("Validation failed", 0, validation.errors),
                    "economical", recipe))
             ELSE Return(SuccessResult(crucible, targetIngots.val,
                                       Some(calculateRarityCost(amounts.val)),
                                       "economical", recipe, amounts.val))
  /\ UNCHANGED <<callerVars, entry, input, heap, recipe, targetIngots, searchVars, amounts,
                 thrown>>

(***************************************************************************)
(* Specification.                                                          *)
(***************************************************************************)
Next ==
  \/ ValidateInput
  \/ CopyRecipe
  \/ Dispatch
  \/ MaximizeStart
  \/ MaximizeProbe
  \/ MaximizeFinish
  \/ EconomicalStart
  \/ EconomicalCreate
  \/ EconomicalFinish

Spec == Init /\ [][Next]_vars

(***************************************************************************)
(* recipeValidator.ts: validateRecipe called on its own, on crucibles the  *)
(* solvers would never build.                                              *)
(***************************************************************************)
\* what a slot of the crucible may hold
ValidatorSlotContents ==
  { [metalId |-> NoMetal, nuggets |-> 0],
    [metalId |-> "copper", nuggets |-> 92],
    [metalId |-> "copper", nuggets |-> SlotCapacity + 1],
    [metalId |-> "tin", nuggets |-> 8],
    [metalId |-> "tin", nuggets |-> 0] }

\* crucibles of 4 and of 5 slots, ids 0..
ValidatorCrucibles ==
  UNION { { [i \in 1..len |-> Slot(i - 1, f[i].metalId, f[i].nuggets)] :
              f \in [1..len -> ValidatorSlotContents] } :
          len \in {MaxSlots, MaxSlots + 1} }

\* recipes to validate against: tin bronze, a recipe with open bands, and a
\* recipe without components
ValidatorRecipes ==
  { ALLOY_RECIPES[1].components,
    <<Comp("copper", 0, 10000), Comp("tin", 0, 10000)>>,
    <<>> }

ValidatorIngotCounts == {0, 5}

ValidatorCalls ==
  { ValidatorArgs(slots, components, ingotCount) :
      slots \in ValidatorCrucibles, components \in ValidatorRecipes,
      ingotCount \in ValidatorIngotCounts }

InitValidate ==
  /\ entry = "validateRecipe"
  /\ pc = "validateRecipe"
  /\ validatorArgs \in ValidatorCalls
  /\ validationResult = NoValidation
  /\ input = Input(TRUE, FALSE, NoRecipe, "undefined", NoNumber)
  /\ heap = << <<>> >>
  /\ recipe = NoRecipe
  /\ targetIngots = NoNumber
  /\ low = 0 /\ high = 0 /\ maxValid = 0
  /\ bestAmounts = None
  /\ probes = <<>>
  /\ amounts = None
  /\ result = NoResult
  /\ thrown = FALSE
  /\ calls = 1
  /\ first = NoOutcome

\* lines 121-180
ValidateRecipe ==
  /\ pc = "validateRecipe"
  /\ validationResult' = validateRecipe(validatorArgs.slots,
                                        validatorArgs.components,
                                        validatorArgs.ingotCount)
  /\ pc' = "done"
  /\ UNCHANGED <<entry, input, heap, recipe, targetIngots, searchVars, amounts,
                 result, thrown, calls, first, validatorArgs>>

NextValidate == ValidateRecipe

SpecValidate == InitValidate /\ [][NextValidate]_vars

(***************************************************************************)
(* recipeValidator.ts: validateComponentPresence and validatePercentages   *)
(* called on their own, on any amounts list.                               *)
(***************************************************************************)
\* the optimizer's entry points are not running
OptimizerIdle ==
  /\ input = Input(TRUE, FALSE, NoRecipe, "undefined", NoNumber)
  /\ heap = << <<>> >>
  /\ recipe = NoRecipe
  /\ targetIngots = NoNumber
  /\ low = 0 /\ high = 0 /\ maxValid = 0
  /\ bestAmounts = None
  /\ probes = <<>>
  /\ amounts = None
  /\ result = NoResult
  /\ thrown = FALSE
  /\ calls = 1
  /\ first = NoOutcome

\* the arguments (amounts, recipe) of a helper
AmountsArgs(amts, components) == [amounts |-> amts, components |-> components]

\* the boolean a helper returns
Verdict(b) == [valid |-> b, errors |-> <<>>]

\* the sequences of 1..MaxAmounts entries over a set of entries
AmountLists(entries) ==
  UNION { [1..len -> entries] : len \in 1..MaxAmounts }

\* amounts for validateComponentPresence: any list, metals may repeat
PresenceAmounts ==
  AmountLists({Amount(m, n) : m \in {"copper", "zinc", "bismuth"},
                             n \in {0, 1, SlotCapacity}})

PresenceRecipes ==
  { ALLOY_RECIPES[1].components, ALLOY_RECIPES[2].components,
    <<Comp("copper", 10000, 10000)>>, <<>> }

InitPresence ==
  /\ entry = "validateComponentPresence"
  /\ pc = "validateComponentPresence"
  /\ validatorArgs \in {AmountsArgs(a, c) : a \in PresenceAmounts,
                                            c \in PresenceRecipes}
  /\ validationResult = NoValidation
  /\ OptimizerIdle

\* lines 101-112
ValidateComponentPresence ==
  /\ pc = "validateComponentPresence"
  /\ validationResult' =
       Verdict(validateComponentPresence(validatorArgs.amounts,
                                         validatorArgs.components))
  /\ pc' = "done"
  /\ UNCHANGED <<entry, input, heap, recipe, targetIngots, searchVars, amounts,
                 result, thrown, calls, first, validatorArgs>>

NextPresence == ValidateComponentPresence

SpecPresence == InitPresence /\ [][NextPresence]_vars

\* amounts for validatePercentages: fill plans, one entry per metal
PercentageAmounts ==
  { a \in AmountLists({Amount(m, n) : m \in {"copper", "tin", "zinc"},
                                      n \in {0, 1, 2, SlotCapacity}}) :
      \A i, j \in 1..Len(a) : a[i].metalId = a[j].metalId => i = j }

\* recipes whose bands end 0.01 and 0.02 away from one third and two
\* thirds, tin bronze, a recipe with open bands, and one without components
PercentageRecipes ==
  { <<Comp("copper", 3334, 6666), Comp("tin", 3334, 6666)>>,
    <<Comp("copper", 3335, 6665), Comp("tin", 3335, 6665)>>,
    ALLOY_RECIPES[1].components,
    <<Comp("copper", 0, 10000), Comp("tin", 0, 10000)>>,
    <<>> }

InitPercentages ==
  /\ entry = "validatePercentages"
  /\ pc = "validatePercentages"
  /\ validatorArgs \in {AmountsArgs(a, c) : a \in PercentageAmounts,
                                            c \in PercentageRecipes}
  /\ validationResult = NoValidation
  /\ OptimizerIdle

\* lines 41-76
ValidatePercentages ==
  /\ pc = "validatePercentages"
  /\ validationResult' =
       Verdict(validatePercentages(validatorArgs.amounts,
                                   validatorArgs.components))
  /\ pc' = "done"
  /\ UNCHANGED <<entry, input, heap, recipe, targetIngots, searchVars, amounts,
                 result, thrown, calls, first, validatorArgs>>

NextPercentages == ValidatePercentages

SpecPercentages == InitPercentages /\ [][NextPercentages]_vars

(***************************************************************************)
(* maximizationStrategy.ts: findValidRecipe called on its own, for every   *)
(* count the binary search can probe.                                      *)
(***************************************************************************)
FindIngotCounts == 1..SearchHigh

InitFind ==
  /\ entry = "findValidRecipe"
  /\ pc = "findValidRecipe"
  /\ \E r \in Recipes :
       /\ heap = <<r.components>>
       /\ recipe = RecipeObj(r.id, r.name, 1)
  /\ \E N \in FindIngotCounts : targetIngots = Some(N)
  /\ input = Input(TRUE, FALSE, NoRecipe, "undefined", NoNumber)
  /\ low = 0 /\ high = 0 /\ maxValid = 0
  /\ bestAmounts = None
  /\ probes = <<>>
  /\ amounts = None
  /\ result = NoResult
  /\ thrown = FALSE
  /\ calls = 1
  /\ first = NoOutcome
  /\ validatorArgs = NoValidatorArgs
  /\ validationResult = NoValidation

\* lines 67-167: findValidRecipe(recipe, ingotCount); the plan it returns (or
\* null) is kept in bestAmounts
FindValidRecipe ==
  /\ pc = "findValidRecipe"
  /\ bestAmounts' = findValidRecipe(heap[recipe.components], targetIngots.val)
  /\ pc' = "done"
  /\ UNCHANGED <<callerVars, entry, input, heap, recipe, targetIngots, low,
                 high, maxValid, probes, amounts, result, thrown>>

NextFind == FindValidRecipe

SpecFind == InitFind /\ [][NextFind]_vars

(***************************************************************************)
(* optimizeEconomical on its own, for every recipe of the input space and  *)
(* every target from 1 up to the first that cannot fit four containers.    *)
(***************************************************************************)
EconomicalTargets == 1..(25 + 1)

InitEconomical ==
  /\ entry = "optimizeEconomical"
  /\ pc = "optimizeEconomical"
  /\ \E r \in Recipes, N \in EconomicalTargets :
       /\ heap = <<r.components>>
       /\ input = Input(FALSE, TRUE, RecipeObj(r.id, r.name, 1), "economical",
                        Some(N))
  /\ recipe = input.recipe
  /\ targetIngots = input.targetIngots
  /\ low = 0 /\ high = 0 /\ maxValid = 0
  /\ bestAmounts = None
  /\ probes = <<>>
  /\ amounts = None
  /\ result = NoResult
  /\ thrown = FALSE
  /\ calls = 1
  /\ first = NoOutcome
  /\ validatorArgs = NoValidatorArgs
  /\ validationResult = NoValidation

NextEconomical ==
  \/ EconomicalStart
  \/ EconomicalCreate
  \/ EconomicalFinish

SpecEconomical == InitEconomical /\ [][NextEconomical]_vars

(***************************************************************************)
(* maximizeIngots on its own.  The function is synchronous, single-threaded *)
(* code: once called, it keeps taking steps until it returns.  Every step  *)
(* of the call moves pc or adds a probe, and a step is possible exactly    *)
(* while pc is not "done", so this is weak fairness of CallRuns on         *)
(* <<pc, probes>>.                                                         *)
(***************************************************************************)
\* the call takes a step: the control point moves on or a count is probed
CallRuns ==
  /\ pc # "done"
  /\ pc' \in {"search", "done"}
  /\ probes' \in {probes, Append(probes, (low + high) \div 2)}

InitMaximize ==
  /\ entry = "maximizeIngots"
  /\ pc = "maximizeIngots"
  /\ \E r \in Recipes :
       /\ heap = <<r.components>>
       /\ input = Input(FALSE, TRUE, RecipeObj(r.id, r.name, 1), "maximize",
                        NoNumber)
  /\ recipe = input.recipe
  /\ targetIngots = NoNumber
  /\ low = 0 /\ high = 0 /\ maxValid = 0
  /\ bestAmounts = None
  /\ probes = <<>>
  /\ amounts = None
  /\ result = NoResult
  /\ thrown = FALSE
  /\ calls = 1
  /\ first = NoOutcome
  /\ validatorArgs = NoValidatorArgs
  /\ validationResult = NoValidation

NextMaximize ==
  \/ MaximizeStart
  \/ MaximizeProbe
  \/ MaximizeFinish

SpecMaximize ==
  InitMaximize /\ [][NextMaximize]_vars /\ WF_<<pc, probes>>(CallRuns)

(***************************************************************************)
(* The caller repeats a finished call with the same argument object.  The  *)
(* entry points keep no state between calls: every local is initialised by *)
(* the call itself; the arrays already allocated stay where they are.      *)
(***************************************************************************)
CallAgain ==
  /\ pc = "done"
  /\ calls = 1
  /\ calls' = 2
  /\ first' = Outcome(result, thrown)
  /\ pc' = entry
  /\ recipe' = IF entry = "optimizeRecipe" THEN NoRecipe ELSE input.recipe
  /\ targetIngots' = IF entry = "optimizeEconomical" THEN input.targetIngots
                     ELSE NoNumber
  /\ probes' = <<>>
  /\ amounts' = None
  /\ result' = NoResult
  /\ thrown' = FALSE
  /\ UNCHANGED <<entry, input, heap, low, high, maxValid, bestAmounts,
                 validatorArgs, validationResult>>

NextRepeat ==
  \/ Next
  \/ CallAgain

SpecRepeat == Init /\ [][NextRepeat]_vars

(***************************************************************************)
(* Feasible fill plans, as the requirements define them: positive integer  *)
(* nuggets per component, in recipe order, summing to 20 N, every          *)
(* percentage 5 n / N within [minPercent - 0.01, maxPercent + 0.01]        *)
(* (exactly: 500 n within [(min - 1) N, (max + 1) N] in hundredths), and   *)
(* the sum of ceil(n / 128) at most 4.                                     *)
(***************************************************************************)
\* the nugget counts of one component that lie in its band for N ingots; a
\* count above 4 * 128 can never fit and is left out
Band(component, N) ==
  {n \in 1..Min2(NuggetsPerIngot * N, 4 * 128) :
     /\ 500 * n >= (component.minPercent - 1) * N
     /\ 500 * n <= (component.maxPercent + 1) * N}

Bands(components, N) == [i \in 1..Len(components) |-> Band(components[i], N)]

\* some completion of components i.. uses exactly rem nuggets and at most
\* slotsLeft containers
RECURSIVE FeasibleFrom(_, _, _, _)
FeasibleFrom(bands, i, rem, slotsLeft) ==
  IF i = Len(bands)
  THEN rem \in bands[i] /\ -((-rem) \div 128) <= slotsLeft
  ELSE \E n \in bands[i] :
         /\ n < rem
         /\ -((-n) \div 128) <= slotsLeft
         /\ FeasibleFrom(bands, i + 1, rem - n, slotsLeft - (-((-n) \div 128)))

Feasible(components, N) ==
  /\ Len(components) >= 1
  /\ FeasibleFrom(Bands(components, N), 1, 20 * N, 4)

\* some feasible completion of components i.. costs less than budget
\* (rarity cost in tenths)
RECURSIVE CheaperFrom(_, _, _, _, _, _)
CheaperFrom(components, bands, i, rem, slotsLeft, budget) ==
  LET score == METAL_RARITY_SCORES[components[i].metalId] IN
  IF i = Len(bands)
  THEN /\ rem \in bands[i]
       /\ -((-rem) \div 128) <= slotsLeft
       /\ rem * score < budget
  ELSE \E n \in bands[i] :
         /\ n < rem
         /\ -((-n) \div 128) <= slotsLeft
         /\ CheaperFrom(components, bands, i + 1, rem - n,
                        slotsLeft - (-((-n) \div 128)), budget - n * score)

CheaperPlanExists(components, N, cost) ==
  /\ Len(components) >= 1
  /\ CheaperFrom(components, Bands(components, N), 1, 20 * N, 4, cost)

(***************************************************************************)
(* Observations of a finished call.                                        *)
(***************************************************************************)
Returned == pc = "done" /\ ~thrown
Succeeded == Returned /\ result.success
\* maximizeIngots ran its search (the recipe had at least one component)
MaximizeReturned == Returned /\ probes # <<>>
MaximizeSucceeded == Succeeded /\ result.metadata.mode = "maximize"
EconomicalSucceeded == Succeeded /\ result.metadata.mode = "economical"
\* the caller's components
CallerComponents == heap[1]
ResultSlots == result.crucible.val
\* nuggets of one metal over the slots of the returned crucible
RECURSIVE NuggetsOfMetalIn(_, _)
NuggetsOfMetalIn(slots, metalId) ==
  IF slots = <<>> THEN 0
  ELSE (IF Head(slots).metalId = metalId THEN Head(slots).nuggets ELSE 0)
       + NuggetsOfMetalIn(Tail(slots), metalId)
RECURSIVE NuggetsIn(_)
NuggetsIn(slots) ==
  IF slots = <<>> THEN 0 ELSE Head(slots).nuggets + NuggetsIn(Tail(slots))

(***************************************************************************)
(* Claims.                                                                 *)
(***************************************************************************)
\* C1: if maximizeIngots succeeds with count N, no M with N < M <= 50 has a
\* feasible fill plan (N is the largest feasible count).
C1_Maximal ==
  MaximizeSucceeded =>
    \A M \in (result.ingotCount + 1)..SearchHigh : ~Feasible(CallerComponents, M)

\* C2: if maximizeIngots succeeds with count N, no feasible fill plan exists
\* for N + 1, and N + 1 was either probed by the binary search or needs more
\* than 4 x 128 nuggets.
C2_NextInfeasible ==
  MaximizeSucceeded =>
    /\ ~Feasible(CallerComponents, result.ingotCount + 1)
    /\ \/ \E k \in 1..Len(probes) : probes[k] = result.ingotCount + 1
       \/ 20 * (result.ingotCount + 1) > 4 * 128

\* a success whose successor count was probed and rejected although the
\* count itself is well inside the search interval
C2_Witness ==
  /\ MaximizeSucceeded
  /\ result.ingotCount = 21
  /\ \E k \in 1..Len(probes) : probes[k] = 22

\* C3: for a recipe with at least one component, maximizeIngots fails if and
\* only if no N in 1..50 has a feasible fill plan.
C3_FailureIffInfeasible ==
  MaximizeReturned =>
    (~result.success <=> \A N \in 1..SearchHigh : ~Feasible(CallerComponents, N))

\* C4: an economical success costs no more than any other feasible fill plan
\* for the same recipe and target.
C4_MinimalCost ==
  EconomicalSucceeded =>
    ~CheaperPlanExists(CallerComponents, result.ingotCount, result.rarityCost.val)

\* C5: every success carries a crucible with at most 4 non-empty slots and
\* no slot above 128 nuggets.
C5_Containment ==
  Succeeded =>
    /\ result.crucible.some
    /\ Cardinality({i \in 1..Len(ResultSlots) :
                      ResultSlots[i].metalId # "null"
                      /\ ResultSlots[i].nuggets > 0}) <= 4
    /\ \A i \in 1..Len(ResultSlots) : ResultSlots[i].nuggets <= 128

\* a success that uses all four slots, one of them full
C5_Witness ==
  /\ Succeeded
  /\ \A i \in 1..Len(ResultSlots) : ResultSlots[i].nuggets > 0
  /\ \E i \in 1..Len(ResultSlots) : ResultSlots[i].nuggets = 128

\* C6: in every success, each component's realised percentage
\* (its nuggets x 5 x 100 / total units) lies in
\* [minPercent - 0.01, maxPercent + 0.01].
C6_PercentageConformance ==
  Succeeded =>
    \A i \in 1..Len(CallerComponents) :
      LET c == CallerComponents[i]
          n == NuggetsOfMetalIn(ResultSlots, c.metalId)
          total == NuggetsIn(ResultSlots)
      IN /\ total > 0
         /\ 100 * 100 * n >= (c.minPercent - 1) * total
         /\ 100 * 100 * n <= (c.maxPercent + 1) * total

\* an economical success on a recipe that has a band narrower than 1%
C6_Witness ==
  /\ Succeeded
  /\ Len(CallerComponents) >= 2
  /\ \E i \in 1..Len(CallerComponents) :
       CallerComponents[i].maxPercent - CallerComponents[i].minPercent < 100
  /\ result.metadata.mode = "economical"

\* C7: in every success the crucible holds exactly ingotCount x 100 units,
\* and an economical success reports the requested target as ingotCount.
C7_ExactTotal ==
  Succeeded =>
    /\ 5 * NuggetsIn(ResultSlots) = 100 * result.ingotCount
    /\ result.metadata.mode = "economical" =>
         /\ targetIngots.some
         /\ result.ingotCount = targetIngots.val
         /\ entry = "optimizeRecipe" => result.ingotCount = input.targetIngots.val

\* successes of both kinds exist; this one is economical through the facade
C7_Witness ==
  /\ EconomicalSucceeded
  /\ entry = "optimizeRecipe"
  /\ result.ingotCount = 5

\* C8: in every success every component of the recipe has at least one
\* nugget in the crucible.
C8_Presence ==
  Succeeded =>
    \A i \in 1..Len(CallerComponents) :
      NuggetsOfMetalIn(ResultSlots, CallerComponents[i].metalId) >= 1

\* a success on a recipe of three or more components
C8_Witness ==
  /\ Succeeded
  /\ Len(CallerComponents) >= 3

\* C9: optimizeRecipe never throws; every call ends with a result value.
C9_NeverThrows ==
  entry = "optimizeRecipe" => ~thrown

\* C10: no step of a call changes the caller's argument or the components
\* array of the caller's recipe.
C10_InputUnchanged ==
  [][input' = input /\ heap'[1] = heap[1]]_vars

\* an economical call through the facade that sorted its components into a
\* different order and returned
C10_Witness ==
  /\ pc = "done"
  /\ entry = "optimizeRecipe"
  /\ Len(heap) = 3
  /\ heap[3] # heap[1]

\* C11: every returned result is all-or-nothing: a failure has no crucible,
\* ingotCount 0, totalNuggets 0, no percentages and a non-empty reason; a
\* success has a crucible, ingotCount >= 1 and no error.
C11_AllOrNothing ==
  Returned =>
    IF result.success
    THEN /\ result.crucible.some
         /\ result.ingotCount >= 1
         /\ result.error = NoError
    ELSE /\ ~result.crucible.some
         /\ result.ingotCount = 0
         /\ result.metadata.totalNuggets = 0
         /\ result.metadata.percentages = <<>>
         /\ result.error.text # ""

\* a failure returned after the solver had already built a fill plan: the
\* plan for 26 ingots of one metal needs five containers
C11_Witness ==
  /\ Returned
  /\ ~result.success
  /\ amounts.some
  /\ TotalNuggets(amounts.val) > 4 * 128

EconomicalRequest ==
  \/ entry = "optimizeEconomical"
  \/ /\ entry = "optimizeRecipe"
     /\ ~input.isNull /\ input.hasRecipe
     /\ input.mode = "economical"
     /\ input.recipe.components # 0

\* C13: an economical request with an absent target is rejected with the
\* reason "required", one with a target <= 0 with the reason "must be greater
\* than zero", and one with an empty component list with the reason "no
\* components", through optimizeEconomical and through optimizeRecipe alike.
C13_TargetReasons ==
  (EconomicalRequest /\ pc = "done") =>
    LET target == input.targetIngots
        empty == input.recipe.components = 0 \/ Len(CallerComponents) = 0
    IN /\ \/ ~thrown /\ ~result.success
          \/ target.some /\ target.val > 0 /\ ~empty
       /\ (~target.some /\ ~empty) =>
            result.error.text = "Target ingot amount is required for economical mode"
       /\ (target.some /\ target.val <= 0 /\ ~empty) =>
            result.error.text = "Target ingot amount must be greater than zero"
       /\ (target.some /\ target.val > 0 /\ empty) =>
            result.error.text = "Recipe has no components"

\* the scarcity cost recomputed from a crucible: over the metals, the nuggets
\* of the metal in all its slots times the metal's score (in tenths)
RECURSIVE CostOfMetalsIn(_, _)
CostOfMetalsIn(slots, metals) ==
  IF metals = {} THEN 0
  ELSE LET m == CHOOSE x \in metals : TRUE
       IN NuggetsOfMetalIn(slots, m) * METAL_RARITY_SCORES[m]
          + CostOfMetalsIn(slots, metals \ {m})

\* C14: an economical success reports as rarityCost the sum over the metals
\* of the returned crucible of (nuggets of the metal in all its slots) x
\* (the metal's scarcity score); the cost of no amounts is 0.
C14_RarityCost ==
  /\ calculateRarityCost(<<>>) = 0
  /\ EconomicalSucceeded =>
       /\ result.rarityCost.some
       /\ result.rarityCost.val = CostOfMetalsIn(ResultSlots, Metals)

\* an economical success with two metals, one of them spread over more than
\* one slot
C14_Witness ==
  /\ EconomicalSucceeded
  /\ Len(CallerComponents) >= 2
  /\ \E m \in Metals : NuggetsOfMetalIn(ResultSlots, m) > 128

\* C15: a second call of optimizeRecipe with the same argument ends as the
\* first did: it throws or returns alike, with the same outcome tag, the same
\* ingotCount, the same percentages and the same crucible, whatever the
\* first call left behind.
C15_Deterministic ==
  (entry = "optimizeRecipe" /\ calls = 2 /\ pc = "done") =>
    /\ thrown = first.thrown
    /\ result.success = first.result.success
    /\ result.ingotCount = first.result.ingotCount
    /\ result.metadata.percentages = first.result.metadata.percentages
    /\ result.crucible = first.result.crucible

\* a second maximize call succeeded after a first one had run its search
C15_Witness ==
  /\ entry = "optimizeRecipe"
  /\ calls = 2
  /\ Returned
  /\ result.success
  /\ result.metadata.mode = "maximize"
  /\ first.result.success

\* C16: for a request with a recipe and a valid mode, the returned result's
\* metadata.mode is the requested mode; a maximize request on a non-empty
\* recipe ran the binary search and no economical plan was built for it, an
\* economical request never ran the search.
C16_ModeDispatch ==
  (/\ entry = "optimizeRecipe" /\ Returned
   /\ ~input.isNull /\ input.hasRecipe
   /\ input.mode \in {"maximize", "economical"}) =>
    /\ result.metadata.mode = input.mode
    /\ input.mode = "maximize" =>
         /\ amounts = None
         /\ Len(CallerComponents) > 0 => probes # <<>>
    /\ input.mode = "economical" => probes = <<>>

\* an economical request without a target was rejected as an economical one
C16_Witness ==
  /\ entry = "optimizeRecipe"
  /\ Returned
  /\ input.hasRecipe
  /\ input.mode = "economical"
  /\ ~input.targetIngots.some
  /\ result.metadata.mode = "economical"

\* C17: maximizing a recipe of one component with band 100-100% succeeds
\* with ingotCount 25 (20 x 25 = 500 <= 4 x 128 < 20 x 26) and every nugget
\* of the crucible is of that component's metal.
C17_SingleComponent ==
  (/\ pc = "done"
   /\ entry \in {"optimizeRecipe", "maximizeIngots"}
   /\ ~input.isNull /\ input.hasRecipe /\ input.mode = "maximize"
   /\ input.recipe.components # 0
   /\ Len(CallerComponents) = 1
   /\ CallerComponents[1].minPercent = 10000
   /\ CallerComponents[1].maxPercent = 10000) =>
    /\ Succeeded
    /\ result.ingotCount = 25
    /\ 20 * 25 <= MaxSlots * SlotCapacity
    /\ 20 * 26 > MaxSlots * SlotCapacity
    /\ NuggetsIn(ResultSlots) = 20 * 25
    /\ NuggetsOfMetalIn(ResultSlots, CallerComponents[1].metalId)
         = NuggetsIn(ResultSlots)

\* the search on the one-component recipe went up to 25 and was turned down
\* at 26
C17_Witness ==
  /\ MaximizeSucceeded
  /\ Len(CallerComponents) = 1
  /\ CallerComponents[1].minPercent = 10000
  /\ \E k \in 1..Len(probes) : probes[k] = 26

\* the call was optimizeRecipe on the i-th recipe of ALLOY_RECIPES in the
\* given mode
BuiltInRequest(i, mode) ==
  /\ entry = "optimizeRecipe"
  /\ ~input.isNull /\ input.hasRecipe
  /\ input.mode = mode
  /\ input.recipe.id = ALLOY_RECIPES[i].id
  /\ input.recipe.components # 0
  /\ CallerComponents = ALLOY_RECIPES[i].components

\* C18: ALLOY_RECIPES has nine recipes, and optimizeRecipe in maximize mode
\* on each of them returns a success with ingotCount >= 1 and a crucible; on
\* bismuth bronze the count is at least 24.
C18_BuiltInsMaximize ==
  /\ Len(ALLOY_RECIPES) = 9
  /\ \A i \in 1..Len(ALLOY_RECIPES) :
       (BuiltInRequest(i, "maximize") /\ pc = "done") =>
         /\ Succeeded
         /\ result.ingotCount >= 1
         /\ result.crucible.some
         /\ ALLOY_RECIPES[i].id = "bismuth-bronze" => result.ingotCount >= 24

\* the maximize call on bismuth bronze returned with its three metals in
\* four slots
C18_Witness ==
  /\ \E i \in 1..Len(ALLOY_RECIPES) :
       /\ ALLOY_RECIPES[i].id = "bismuth-bronze"
       /\ BuiltInRequest(i, "maximize")
  /\ Succeeded
  /\ \A k \in 1..Len(ResultSlots) : ResultSlots[k].nuggets > 0

\* C19: optimizeRecipe in economical mode with target 5 on each of the nine
\* recipes of ALLOY_RECIPES returns a success with ingotCount 5, a crucible
\* and a rarityCost.
C19_BuiltInsEconomical ==
  \A i \in 1..Len(ALLOY_RECIPES) :
    (/\ BuiltInRequest(i, "economical")
     /\ input.targetIngots = Some(5)
     /\ pc = "done") =>
      /\ Succeeded
      /\ result.ingotCount = 5
      /\ result.crucible.some
      /\ result.rarityCost.some

\* the economical call for 5 ingots of bismuth bronze returned; its zinc is
\* held below its maximum so that bismuth keeps its minimum
C19_Witness ==
  /\ \E i \in 1..Len(ALLOY_RECIPES) :
       /\ ALLOY_RECIPES[i].id = "bismuth-bronze"
       /\ BuiltInRequest(i, "economical")
  /\ input.targetIngots = Some(5)
  /\ Succeeded
  /\ NuggetsOfMetalIn(ResultSlots, "zinc") = 20
  /\ NuggetsOfMetalIn(ResultSlots, "bismuth") = 10

\* the names of the checks that fail on a crucible, each decided from the
\* slots themselves.  The percentage check is the one validatePercentages
\* makes: it also fails for an empty crucible and for an absent component.
FailingChecks(slots, components, ingotCount) ==
  LET total == NuggetsIn(slots)
      of(c) == NuggetsOfMetalIn(slots, c.metalId)
  IN (IF Cardinality({i \in 1..Len(slots) :
                        slots[i].metalId # "null" /\ slots[i].nuggets > 0}) > 4
      THEN {"slot count"} ELSE {})
     \cup (IF \E i \in 1..Len(slots) : slots[i].nuggets > 128
           THEN {"slot capacity"} ELSE {})
     \cup (IF \E i \in 1..Len(components) : of(components[i]) = 0
           THEN {"component presence"} ELSE {})
     \cup (IF 5 * total # 100 * ingotCount THEN {"total units"} ELSE {})
     \cup (IF \/ total = 0
              \/ \E i \in 1..Len(components) :
                   \/ of(components[i]) = 0
                   \/ 10000 * of(components[i])
                        < (components[i].minPercent - 1) * total
                   \/ 10000 * of(components[i])
                        > (components[i].maxPercent + 1) * total
           THEN {"percentages"} ELSE {})

ValidateReturned == entry = "validateRecipe" /\ pc = "done"

\* C20: validateRecipe's valid is true exactly when its errors list is empty,
\* and the list has exactly one entry for each of the five checks that fails
\* and none for a check that passes.
C20_ValidationReport ==
  ValidateReturned =>
    LET errors == validationResult.errors
        failing == FailingChecks(validatorArgs.slots, validatorArgs.components,
                                 validatorArgs.ingotCount)
    IN /\ validationResult.valid <=> (errors = <<>>)
       /\ {errors[k] : k \in 1..Len(errors)} = failing
       /\ Len(errors) = Cardinality(failing)
       /\ failing # {} => ~validationResult.valid

\* a crucible of five overfull copper slots judged against tin bronze: all
\* five checks fail at once
C20_Witness ==
  /\ ValidateReturned
  /\ Len(validationResult.errors) = 5
  /\ ~validationResult.valid

\* C21: validateComponentPresence returns true exactly when every component
\* of the recipe has some entry in amounts with its metalId and nuggets > 0,
\* also when amounts repeats a metalId; with no components it returns true.
C21_PresenceIff ==
  (entry = "validateComponentPresence" /\ pc = "done") =>
    LET amts == validatorArgs.amounts
        components == validatorArgs.components
    IN /\ validationResult.valid <=>
            \A i \in 1..Len(components) :
              \E k \in 1..Len(amts) :
                /\ amts[k].metalId = components[i].metalId
                /\ amts[k].nuggets > 0
       /\ components = <<>> => validationResult.valid

\* C22: validatePercentages returns true exactly when the total is positive
\* and every component of the recipe has an entry with nuggets > 0 whose
\* share of the total, in percent, lies in
\* [minPercent - 0.01, maxPercent + 0.01].
C22_PercentagesIff ==
  (entry = "validatePercentages" /\ pc = "done") =>
    LET amts == validatorArgs.amounts
        components == validatorArgs.components
        total == SumSeq([k \in 1..Len(amts) |-> amts[k].nuggets])
    IN validationResult.valid <=>
         /\ 5 * total > 0
         /\ \A i \in 1..Len(components) :
              \E k \in 1..Len(amts) :
                /\ amts[k].metalId = components[i].metalId
                /\ amts[k].nuggets > 0
                /\ 100 * 100 * amts[k].nuggets
                     >= (components[i].minPercent - 1) * total
                /\ 100 * 100 * amts[k].nuggets
                     <= (components[i].maxPercent + 1) * total

\* a plan of one third copper and two thirds tin was accepted for bands that
\* start 0.01 above one third and end 0.01 below two thirds
C22_Witness ==
  /\ entry = "validatePercentages" /\ pc = "done"
  /\ validationResult.valid
  /\ validatorArgs.components
       = <<Comp("copper", 3334, 6666), Comp("tin", 3334, 6666)>>
  /\ validatorArgs.amounts = <<Amount("copper", 1), Amount("tin", 2)>>

\* the nugget counts from 0 up that put one component inside its tolerance
\* band for N ingots (in hundredths of a unit: 500 n within
\* [(min - 1) N, (max + 1) N]); a count above 4 x 128 can never fit
NonNegBand(component, N) ==
  {n \in 0..Min2(20 * N, 4 * 128) :
     /\ 500 * n >= (component.minPercent - 1) * N
     /\ 500 * n <= (component.maxPercent + 1) * N}

\* components i.. can be given in-band counts that sum to rem and need at
\* most slotsLeft containers
RECURSIVE PlanExistsFrom(_, _, _, _, _)
PlanExistsFrom(components, N, i, rem, slotsLeft) ==
  IF i > Len(components) THEN rem = 0
  ELSE \E n \in NonNegBand(components[i], N) :
         /\ n <= rem
         /\ -((-n) \div 128) <= slotsLeft
         /\ PlanExistsFrom(components, N, i + 1, rem - n,
                           slotsLeft - (-((-n) \div 128)))

PlanExists(components, N) ==
  /\ Len(components) >= 1
  /\ PlanExistsFrom(components, N, 1, 20 * N, 4)

\* C23: findValidRecipe(recipe, N) returns a plan exactly when some
\* assignment of non-negative nuggets to the components sums to 20 N, keeps
\* every percentage in its tolerance band and needs at most 4 containers;
\* a returned plan is such an assignment, in recipe order, its last entry
\* being the remainder.
C23_FindComplete ==
  (entry = "findValidRecipe" /\ pc = "done") =>
    LET components == heap[1]
        N == targetIngots.val
        plan == bestAmounts.val
        sumTo(k) == SumSeq([i \in 1..k |-> plan[i].nuggets])
    IN /\ bestAmounts.some <=> PlanExists(components, N)
       /\ bestAmounts.some =>
            /\ Len(plan) = Len(components)
            /\ \A i \in 1..Len(plan) :
                 /\ plan[i].metalId = components[i].metalId
                 /\ plan[i].nuggets \in NonNegBand(components[i], N)
            /\ sumTo(Len(plan)) = 20 * N
            /\ plan[Len(plan)].nuggets = 20 * N - sumTo(Len(plan) - 1)
            /\ SumSeq([i \in 1..Len(plan) |->
                         -((-plan[i].nuggets) \div 128)]) <= 4

\* a plan was found for 24 ingots of a three-component recipe
C23_Witness ==
  /\ entry = "findValidRecipe" /\ pc = "done"
  /\ bestAmounts.some
  /\ Len(heap[1]) = 3
  /\ targetIngots.val = 24

\* C24: in maximize mode the plan the binary search selects always passes
\* validateRecipe: no maximize call returns the "Validation failed" Failure,
\* recipes with a component whose minPercent is 0 included.
C24_ValidationNeverFails ==
  (Returned /\ result.metadata.mode = "maximize") =>
    result.error.text # "Validation failed"

\* C25: every Success, in either mode, has ingotCount <= 25, because 20 N
\* nuggets must fit in 4 x 128 = 512; so the search's upper end 50 never caps
\* the maximum (no probe above 25 is accepted and the maximum found stays
\* below 50), and an economical request for more than 25 ingots fails.
C25_AtMostTwentyFive ==
  /\ Succeeded =>
       /\ result.ingotCount <= 25
       /\ 20 * result.ingotCount <= MaxSlots * SlotCapacity
       /\ NuggetsIn(ResultSlots) = 20 * result.ingotCount
  /\ pc \in {"search", "done"} =>
       /\ maxValid <= 25
       /\ maxValid < SearchHigh
       /\ \A i \in 1..Len(probes) : probes[i] > 25 => maxValid < probes[i]
  /\ (EconomicalRequest /\ Returned /\ targetIngots.some
        /\ targetIngots.val > 25) => ~result.success

\* 26 ingots of the one-component recipe were asked for in economical mode:
\* the plan of 520 nuggets was made and turned down for its containers
C25_Witness ==
  /\ EconomicalRequest /\ Returned
  /\ targetIngots.val = 26
  /\ Len(CallerComponents) = 1
  /\ amounts.some /\ amounts.val[1].nuggets = 520
  /\ ~result.success
  /\ result.error.text = "Recipe for N ingots requires more than 4 crucible slots"

\* the nugget counts that put a component's share of N ingots inside its
\* band [minPercent, maxPercent]
InBandCounts(component, N) ==
  {n \in 0..(20 * N) : /\ 500 * n >= component.minPercent * N
                       /\ 500 * n <= component.maxPercent * N}

\* the caller's component for a metal
ComponentOf(components, metalId) ==
  components[CHOOSE i \in 1..Len(components) : components[i].metalId = metalId]

IndexOf(components, metalId) ==
  CHOOSE i \in 1..Len(components) : components[i].metalId = metalId

SetMax(S) == CHOOSE n \in S : \A m \in S : m <= n
SetMin(S) == CHOOSE n \in S : \A m \in S : n <= m

\* the plan gives its k-th processed component what the greedy rule says
GreedyShare(components, plan, N, k) ==
  LET component == ComponentOf(components, plan[k].metalId)
      allocated == SumSeq([j \in 1..(k - 1) |-> plan[j].nuggets])
      minRemaining ==
        SumSeq([j \in 1..(Len(plan) - k) |->
                  ComponentOf(components, plan[k + j].metalId).minPercent * N])
      leaving == {n \in InBandCounts(component, N) :
                    500 * (allocated + n) + minRemaining <= 10000 * N}
  IN IF getRarityScore(component.metalId) <= 20
     THEN leaving # {} /\ plan[k].nuggets = SetMax(leaving)
     ELSE /\ InBandCounts(component, N) # {}
          /\ plan[k].nuggets = SetMin(InBandCounts(component, N))

\* C26: optimizeEconomical processes the components in ascending scarcity
\* score, ties in recipe order; every component but the last processed gets
\* its largest in-band count that leaves the later ones their combined
\* minimum when its score is <= 2.0 and its smallest in-band count when the
\* score is above 2.0; the last gets the remainder; so a Success for a
\* two-component recipe of a common and a rare metal has the common metal at
\* its maximum and the rare metal at its minimum.
C26_GreedyAllocation ==
  (EconomicalRequest /\ pc \in {"finish", "done"} /\ ~thrown /\ amounts.some
     /\ Len(CallerComponents) >= 2) =>
    LET components == CallerComponents
        plan == amounts.val
        N == targetIngots.val
    IN /\ Len(plan) = Len(components)
       /\ \A j, k \in 1..Len(plan) :
            j < k =>
              LET sj == getRarityScore(plan[j].metalId)
                  sk == getRarityScore(plan[k].metalId)
              IN \/ sj < sk
                 \/ /\ sj = sk
                    /\ IndexOf(components, plan[j].metalId)
                         < IndexOf(components, plan[k].metalId)
       /\ \A k \in 1..(Len(plan) - 1) : GreedyShare(components, plan, N, k)
       /\ plan[Len(plan)].nuggets
            = 20 * N - SumSeq([j \in 1..(Len(plan) - 1) |-> plan[j].nuggets])
       /\ (Succeeded /\ Len(plan) = 2
             /\ getRarityScore(plan[1].metalId) <= 20
             /\ getRarityScore(plan[2].metalId) > 20) =>
            /\ plan[1].nuggets
                 = SetMax(InBandCounts(ComponentOf(components, plan[1].metalId), N))
            /\ plan[2].nuggets
                 = SetMin(InBandCounts(ComponentOf(components, plan[2].metalId), N))

\* what is left for the last processed component after the loop has given
\* the others their nuggets, in units
LastRemainder(components, N) ==
  LET sortedComponents == SortByRarity(components)
  IN 100 * N - TotalUnits(EcoLoop(sortedComponents, N, 1, 0, <<>>))

\* that remainder is a share outside [min - 0.01, max + 0.01] of the last
\* processed component
LastOutOfBand(components, N) ==
  LET sortedComponents == SortByRarity(components)
      lastComponent == sortedComponents[Len(sortedComponents)]
      remainder == LastRemainder(components, N)
  IN \/ 100 * remainder < (lastComponent.minPercent - 1) * N
     \/ 100 * remainder > (lastComponent.maxPercent + 1) * N

\* C27: when the remainder left for the last component is a percentage
\* outside [min - 0.01, max + 0.01], optimizeEconomical returns the Failure
\* "Cannot create valid recipe for N ingots within percentage constraints"
\* and tries no other allocation, also where another feasible plan exists;
\* and that Failure is returned in no other case.
C27_NoFallback ==
  (EconomicalRequest /\ Returned /\ targetIngots.some /\ targetIngots.val > 0
     /\ Len(CallerComponents) >= 1) =>
    LET outOfBand == Len(CallerComponents) >= 2
                     /\ LastOutOfBand(CallerComponents, targetIngots.val)
        cannotCreate ==
          result.error.text
            = "Cannot create valid recipe for N ingots within percentage constraints"
    IN /\ outOfBand <=> cannotCreate
       /\ outOfBand =>
            /\ ~result.success
            /\ result.crucible = None
            /\ result.ingotCount = 0
            /\ result.error.n = targetIngots.val
            /\ amounts = None

\* the greedy remainder was out of band and the call failed although a plan
\* for that count exists
C27_Witness ==
  /\ EconomicalRequest /\ Returned
  /\ targetIngots.some /\ targetIngots.val > 0
  /\ Len(CallerComponents) >= 2
  /\ LastOutOfBand(CallerComponents, targetIngots.val)
  /\ ~result.success
  /\ Feasible(CallerComponents, targetIngots.val)

\* the containers a plan needs: each metal fills containers of 128
ContainersNeeded(plan) ==
  SumSeq([i \in 1..Len(plan) |-> -((-plan[i].nuggets) \div 128)])

\* C28: optimizeEconomical returns a Failure (crucible null, ingotCount 0)
\* whenever the greedy plan needs more than 4 containers, the Failure being
\* "Recipe for N ingots requires more than 4 crucible slots"; the recipe of
\* four components at 24.9-25.1 % each fails for target 100.
C28_TooManyContainers ==
  /\ (EconomicalRequest /\ Returned /\ amounts.some
        /\ ContainersNeeded(amounts.val) > 4) =>
       /\ ~result.success
       /\ result.crucible = None
       /\ result.ingotCount = 0
       /\ result.error.text
            = "Recipe for N ingots requires more than 4 crucible slots"
       /\ result.error.n = targetIngots.val
  /\ (EconomicalRequest /\ Returned /\ targetIngots = Some(100)
        /\ Len(CallerComponents) = 4
        /\ \A i \in 1..4 : /\ CallerComponents[i].minPercent = 2490
                           /\ CallerComponents[i].maxPercent = 2510) =>
       /\ ~result.success
       /\ result.crucible = None
       /\ result.ingotCount = 0

\* a plan of at most 512 nuggets that needs five containers was turned down
C28_Witness ==
  /\ EconomicalRequest /\ Returned
  /\ amounts.some
  /\ TotalNuggets(amounts.val) <= 512
  /\ ContainersNeeded(amounts.val) = 5
  /\ ~result.success

\* the four-quarters recipe was asked for 100 ingots and turned down
C28_WitnessQuarters ==
  /\ EconomicalRequest /\ Returned /\ targetIngots = Some(100)
  /\ Len(CallerComponents) = 4
  /\ amounts.some /\ ContainersNeeded(amounts.val) = 16
  /\ ~result.success

\* one iteration of the binary search leaves a strictly smaller interval
SearchShrinks ==
  (pc = "search" /\ probes' # probes) =>
    /\ low' >= low /\ high' <= high
    /\ high' - low' < high - low

\* the call of maximizeIngots on a recipe of five components, each of which
\* needs a container of its own
FiveComponentCall ==
  /\ entry = "maximizeIngots"
  /\ Len(CallerComponents) = 5
  /\ \A i \in 1..5 : CallerComponents[i].minPercent > 1

\* C29: maximizeIngots terminates on every recipe: each iteration of the
\* binary search over 1..50 strictly shrinks the interval, at most 6 counts
\* are probed, and a recipe that cannot fit 4 containers even for one ingot
\* ends in the "No valid recipe configuration" Failure.
C29_Terminates ==
  /\ <>(pc = "done")
  /\ [](Len(probes) <= 6)
  /\ [][SearchShrinks]_vars
  /\ [](pc = "search" => (1 <= low /\ high <= 50 /\ low <= high + 1))
  /\ []((FiveComponentCall /\ pc = "done") =>
          /\ ~thrown
          /\ ~result.success
          /\ result.error.text
               = "No valid recipe configuration found within crucible constraints"
          /\ maxValid = 0)

\* the five-component recipe was probed down to one ingot and turned down
C29_Witness ==
  /\ FiveComponentCall /\ pc = "done"
  /\ probes = <<25, 12, 6, 3, 1>>
  /\ ~result.success

\* a search that took six probes came to its end
C29_WitnessSixProbes == pc = "done" /\ Len(probes) = 6 /\ result.success

\* the plan the solver of the finished call made
SolverPlan ==
  IF result.metadata.mode = "maximize" THEN bestAmounts.val ELSE amounts.val

\* C30: the crucible of every Success has exactly 4 slots with ids 0, 1, 2, 3
\* in order; the filled slots come first, the slots of one metal are
\* consecutive and all but the metal's last slot hold exactly 128; the other
\* slots are empty (no metal, 0 nuggets); the slots of each metal sum to the
\* solver's plan, and metadata.totalNuggets = 20 x ingotCount.
C30_CrucibleLayout ==
  Succeeded =>
    LET slots == ResultSlots
        plan == SolverPlan
        filled == {i \in 1..Len(slots) : slots[i].metalId # NoMetal}
    IN /\ Len(slots) = 4
       /\ \A i \in 1..Len(slots) : slots[i].id = i - 1
       /\ \A i \in filled : slots[i].nuggets \in 1..128
       /\ \A i \in 1..Len(slots) :
            i \notin filled =>
              /\ slots[i].nuggets = 0
              /\ \A j \in filled : j < i
       /\ \A i, j \in filled :
            (i < j /\ slots[i].metalId = slots[j].metalId) =>
              /\ slots[i].nuggets = 128
              /\ \A k \in i..j : slots[k].metalId = slots[i].metalId
       /\ \A i \in filled :
            \E k \in 1..Len(plan) : plan[k].metalId = slots[i].metalId
       /\ \A k \in 1..Len(plan) :
            NuggetsOfMetalIn(slots, plan[k].metalId) = plan[k].nuggets
       /\ result.metadata.totalNuggets = 20 * result.ingotCount
       /\ NuggetsIn(slots) = result.metadata.totalNuggets

\* a Success whose crucible has a metal in two slots, the first full, a
\* second metal after it and an empty slot at the end
C30_Witness ==
  /\ Succeeded
  /\ \E i \in 1..2 :
       /\ ResultSlots[i].metalId = ResultSlots[i + 1].metalId
       /\ ResultSlots[i].metalId # NoMetal
       /\ ResultSlots[i].nuggets = 128
  /\ ResultSlots[1].metalId # ResultSlots[3].metalId
  /\ ResultSlots[3].metalId # NoMetal
  /\ ResultSlots[4].metalId = NoMetal

====
